---- MODULE Spec2Model ----
(***************************************************************************)
(* Model of the chat route of firecrawl-ai-sdk (src/app/api/chat/route.ts): *)
(* the two Firecrawl tools (scrapeWebsite, searchWeb), the structured      *)
(* output schema, the agent loop they run in and the POST handler.         *)
(*                                                                         *)
(* JavaScript values are modelled as follows.                              *)
(*   - a string is a TLA+ string; s.length is Len(s);                      *)
(*   - an optional value (T | undefined) is None or Some(v);               *)
(*   - an object is a record; a key the code may or may not set is a key   *)
(*     that is or is not in the DOMAIN of the record;                      *)
(*   - a JSON number is [n |-> whole part, frac |-> tenths], so that 2.5   *)
(*     is a number and not an integer;                                     *)
(*   - a thrown value is [isError |-> TRUE, message |-> m] for an Error    *)
(*     and [isError |-> FALSE] for anything else.                          *)
(***************************************************************************)
EXTENDS Integers, Sequences, FiniteSets, TLC

VARIABLES
    openaiKey,   \* process.env.OPENAI_API_KEY is set
    firecrawl,   \* the module-level Firecrawl client is not null
    reqBody,     \* the body of the request POST is serving
    pc,          \* where POST is: its next await, or how it ended
    body,        \* POST's local body, once req.json() has resolved
    reply,       \* what POST returned
    trace,       \* what the request has done so far, one counter per kind of work
    agent,       \* the agent loop of the request
    lastCall,    \* the latest tool call: its input, the adapter calls, its outcome
    tee,         \* the response body and the two branches response.body.tee() made of it
    ui,          \* the chat page: its text field, the chat status, the latest input event
    pair         \* two POST invocations served at once, and the first of them served alone

vars ==
    <<openaiKey, firecrawl, reqBody, pc, body, reply, trace, agent, lastCall, tee, ui, pair>>

\* all that belongs to the route
routeVars == <<openaiKey, firecrawl, reqBody, pc, body, reply, trace, agent, lastCall, tee>>

----------------------------------------------------------------------------
(* JavaScript values *)

None == [has |-> FALSE]
Some(x) == [has |-> TRUE, v |-> x]

\* x ?? d
OrElse(x, d) == IF x.has THEN x.v ELSE d

\* Boolean(s) of an optional string: undefined and "" are falsy
TruthyStr(x) == x.has /\ x.v # ""

\* Boolean(a && a.length > 0) of an optional array
NonEmptyArr(x) == x.has /\ Len(x.v) > 0

Num(k) == [n |-> k, frac |-> 0]
Half(k) == [n |-> k, frac |-> 5]

JsError(m) == [isError |-> TRUE, message |-> m]
NonError == [isError |-> FALSE]

Returned(x, calls) == [threw |-> FALSE, value |-> x, calls |-> calls]
Thrown(e, calls) == [threw |-> TRUE, error |-> e, calls |-> calls]

Min(a, b) == IF a < b THEN a ELSE b

\* s.slice(0, k)
Slice0(s, k) == SubSeq(s, 1, Min(Len(s), k))

RECURSIVE Join(_, _)
\* lines.join(sep)
Join(lines, sep) ==
    IF Len(lines) = 0 THEN ""
    ELSE IF Len(lines) = 1 THEN lines[1]
    ELSE lines[1] \o sep \o Join(Tail(lines), sep)

RECURSIVE Repeat(_, _)
\* s.repeat(k)
Repeat(s, k) ==
    IF k = 0 THEN ""
    ELSE IF k % 2 = 1 THEN s \o Repeat(s, k - 1)
    ELSE LET half == Repeat(s, k \div 2) IN half \o half

\* s.startsWith(p)
StartsWith(s, p) == Len(s) >= Len(p) /\ SubSeq(s, 1, Len(p)) = p

\* s.includes(p)
Includes(s, p) == \E i \in 1..(Len(s) - Len(p) + 1) : SubSeq(s, i, i + Len(p) - 1) = p

ErrorMessageFixed(e) == "Unknown Firecrawl error."

\* error instanceof Error ? error.message : "Unknown Firecrawl error."
ErrorMessage(e) == IF e.isError THEN e.message ELSE "Unknown Firecrawl error."

----------------------------------------------------------------------------
(* scrapeWebsite *)

UrlStrings == {"https://example.com", "https://firecrawl.dev/blog"}

\* z.object({ url: z.string().url() })
scrapeInputSchema(raw) ==
    IF raw.url.has /\ raw.url.v \in UrlStrings
    THEN [ok |-> TRUE, input |-> [url |-> raw.url.v]]
    ELSE [ok |-> FALSE]

scrapeTryTitleOnly(url, adapter) ==
    LET call == <<[fn |-> "scrape", url |-> url,
                   options |-> [formats |-> <<"markdown">>], outcome |-> adapter]>>
    IN  IF adapter.kind = "throw" THEN Thrown(adapter.error, call)
        ELSE LET data == adapter.value IN
             IF data.t = "null"
             THEN Thrown(JsError("Cannot read properties of null (reading 'markdown')"), call)
             ELSE LET markdown == IF data.markdown.has THEN data.markdown.v
                                  ELSE OrElse(data.content, "")
                      title == IF data.metadata.has THEN OrElse(data.metadata.v.title, "") ELSE ""
                  IN  Returned([url |-> url,
                                title |-> title,
                                content |-> "# " \o title \o "\n\n" \o markdown], call)

\* the try block of scrapeWebsite's execute
scrapeTry(url, adapter) ==
    LET call == <<[fn |-> "scrape", url |-> url,
                   options |-> [formats |-> <<"markdown">>], outcome |-> adapter]>>
    IN  IF adapter.kind = "throw" THEN Thrown(adapter.error, call)
        ELSE LET data == adapter.value IN
             IF data.t = "null"
             THEN Thrown(JsError("Cannot read properties of null (reading 'markdown')"), call)
             ELSE LET markdown == IF data.markdown.has THEN data.markdown.v
                                  ELSE OrElse(data.content, "")
                      title == IF data.metadata.has THEN OrElse(data.metadata.v.title, "") ELSE ""
                      heading == IF title # "" THEN title ELSE url
                  IN  Returned([url |-> url,
                                title |-> heading,
                                content |-> "# " \o heading \o "\n\n" \o markdown], call)

\* the catch block of scrapeWebsite's execute
scrapeCatch(url, attempt) ==
    IF attempt.threw
    THEN Returned([url |-> url,
                   title |-> "Firecrawl scrape failed",
                   content |-> "Scrape error: " \o ErrorMessage(attempt.error)],
                  attempt.calls)
    ELSE attempt

scrapePlaceholder(url) ==
    [url |-> url,
     title |-> "Firecrawl key missing",
     content |-> "FIRECRAWL_API_KEY is not configured. Unable to scrape " \o url \o "."]

\* scrapeWebsiteTool.execute
scrapeWebsiteExecute(fc, input, adapter) ==
    IF ~fc
    THEN Returned(scrapePlaceholder(input.url), <<>>)
    ELSE scrapeCatch(input.url, scrapeTry(input.url, adapter))

----------------------------------------------------------------------------
(* searchWeb *)

QueryMinLength == 3
LimitMin == 1
LimitMax == 10
LimitDefault == 5
SnippetMax == 400

CategoryEnum == {"github", "research", "pdf"}
SourceEnum == {"web", "news", "images"}

AllIn(arr, S) == \A i \in 1..Len(arr) : arr[i] \in S

\* query: z.string().min(3)
queryOk(q) == q.has /\ Len(q.v) >= QueryMinLength

\* limit: z.number().int().min(1).max(10), when one is given
limitOk(l) == l.has => (l.v.frac = 0 /\ l.v.n >= LimitMin /\ l.v.n <= LimitMax)

\* limit: .default(5)
limitOrDefault(l) == IF l.has THEN l.v.n ELSE LimitDefault

\* searchWebTool.inputSchema
searchInputSchema(raw) ==
    IF /\ queryOk(raw.query)
       /\ limitOk(raw.limit)
       /\ (raw.categories.has => AllIn(raw.categories.v, CategoryEnum))
       /\ (raw.sources.has => AllIn(raw.sources.v, SourceEnum))
    THEN [ok |-> TRUE,
          input |-> [query |-> raw.query.v,
                     limit |-> limitOrDefault(raw.limit),
                     tbs |-> raw.tbs,
                     location |-> raw.location,
                     categories |-> raw.categories,
                     sources |-> raw.sources]]
    ELSE [ok |-> FALSE]

searchOptionsSendAll(input) ==
    [limit |-> input.limit,
     scrapeOptions |-> [formats |-> <<"markdown">>],
     tbs |-> OrElse(input.tbs, ""),
     location |-> OrElse(input.location, ""),
     categories |-> OrElse(input.categories, <<>>),
     sources |-> OrElse(input.sources, <<>>)]

\* the searchOptions object built for firecrawl.search
searchOptions(input) ==
    LET o0 == [limit |-> input.limit, scrapeOptions |-> [formats |-> <<"markdown">>]]
        o1 == IF TruthyStr(input.tbs) THEN o0 @@ ("tbs" :> input.tbs.v) ELSE o0
        o2 == IF TruthyStr(input.location) THEN o1 @@ ("location" :> input.location.v) ELSE o1
        o3 == IF NonEmptyArr(input.categories)
              THEN o2 @@ ("categories" :> input.categories.v) ELSE o2
    IN  IF NonEmptyArr(input.sources) THEN o3 @@ ("sources" :> input.sources.v) ELSE o3

\* one entry of results: the callback of webResults.map
toResult(item) ==
    LET metaTitle == IF item.metadata.has THEN item.metadata.v.title ELSE None
        metaTime == IF item.metadata.has THEN item.metadata.v.publishedTime ELSE None
        sliced == IF item.markdown.has THEN Slice0(item.markdown.v, SnippetMax) ELSE ""
    IN  [title |-> IF TruthyStr(metaTitle) THEN metaTitle.v
                   ELSE IF TruthyStr(item.title) THEN item.title.v
                   ELSE IF item.url # "" THEN item.url
                   ELSE "Untitled",
         url |-> item.url,
         snippet |-> IF sliced # "" THEN sliced
                     ELSE IF TruthyStr(item.description) THEN item.description.v
                     ELSE "",
         publishedTime |-> metaTime,
         category |-> item.category]

\* one entry of summaryLines (title is never nullish, so its fallbacks are dead)
summaryLine(result) ==
    LET url == IF result.url # "" THEN " (" \o result.url \o ")" ELSE ""
        snippet == IF result.snippet # "" THEN "\n> " \o result.snippet ELSE ""
        category == IF TruthyStr(result.category)
                    THEN " [" \o result.category.v \o "]" ELSE ""
        published == IF TruthyStr(result.publishedTime)
                     THEN " (Published: " \o result.publishedTime.v \o ")" ELSE ""
    IN  "- " \o result.title \o category \o published \o url \o snippet

searchSummaryNoFallback(query, results) ==
    "### Search results for \"" \o query \o "\"\n"
        \o Join([i \in 1..Len(results) |-> summaryLine(results[i])], "\n")

searchSummary(query, results) ==
    LET head == "### Search results for \"" \o query \o "\"\n"
        summaryLines == [i \in 1..Len(results) |-> summaryLine(results[i])]
    IN  IF Len(summaryLines) # 0
        THEN head \o Join(summaryLines, "\n")
        ELSE head \o "- No results found."

\* the try block of searchWeb's execute
searchTry(input, adapter) ==
    LET call == <<[fn |-> "search", query |-> input.query,
                   options |-> searchOptions(input), outcome |-> adapter]>>
    IN  IF adapter.kind = "throw" THEN Thrown(adapter.error, call)
        ELSE LET response == adapter.value IN
             IF response.t = "null"
             THEN Thrown(JsError("Cannot read properties of null (reading 'web')"), call)
             ELSE LET webResults == OrElse(response.web, <<>>) IN
                  IF \E i \in 1..Len(webResults) : webResults[i].t = "null"
                  THEN Thrown(JsError("Cannot read properties of null (reading 'metadata')"),
                              call)
                  ELSE LET results == [i \in 1..Len(webResults) |-> toResult(webResults[i])]
                       IN  Returned(
                             [query |-> input.query,
                              limit |-> input.limit,
                              parameters |->
                                [tbs |-> IF TruthyStr(input.tbs) THEN input.tbs.v ELSE "none",
                                 location |-> IF TruthyStr(input.location)
                                              THEN input.location.v ELSE "global",
                                 categories |-> OrElse(input.categories, <<>>),
                                 sources |-> OrElse(input.sources, <<"web">>)],
                              count |-> Len(results),
                              results |-> results,
                              content |-> searchSummary(input.query, results),
                              message |-> IF Len(results) = 0
                                          THEN Some("No results returned from Firecrawl search")
                                          ELSE None],
                             call)

searchParametersEcho(input) ==
    [tbs |-> input.tbs, location |-> input.location,
     categories |-> input.categories, sources |-> input.sources]

searchNoCatch(input, attempt) == attempt

searchCatchNoErrorField(input, attempt) ==
    IF attempt.threw
    THEN Returned([query |-> input.query,
                   limit |-> input.limit,
                   parameters |-> searchParametersEcho(input),
                   results |-> <<>>],
                  attempt.calls)
    ELSE attempt

\* the catch block of searchWeb's execute
searchCatch(input, attempt) ==
    IF attempt.threw
    THEN Returned([query |-> input.query,
                   limit |-> input.limit,
                   parameters |-> searchParametersEcho(input),
                   results |-> <<>>,
                   error |-> ErrorMessage(attempt.error)],
                  attempt.calls)
    ELSE attempt

searchPlaceholder(input) ==
    [query |-> input.query,
     limit |-> input.limit,
     parameters |-> searchParametersEcho(input),
     results |-> <<>>,
     note |-> "FIRECRAWL_API_KEY is not configured. Unable to perform search."]

searchUnguarded(fc, input, adapter) ==
    searchCatch(input, searchTry(input, adapter))

\* searchWebTool.execute
searchWebExecute(fc, input, adapter) ==
    IF ~fc
    THEN Returned(searchPlaceholder(input), <<>>)
    ELSE searchCatch(input, searchTry(input, adapter))

----------------------------------------------------------------------------
(* Tool dispatch: the SDK parses the model's arguments with the tool's      *)
(* inputSchema and calls execute only with the parsed input.               *)

NoCall == [tool |-> "none"]

dispatchSearchUnchecked(fc, raw, adapter) ==
    LET input == [query |-> OrElse(raw.query, ""),
                  limit |-> IF raw.limit.has THEN raw.limit.v.n ELSE LimitDefault,
                  tbs |-> raw.tbs, location |-> raw.location,
                  categories |-> raw.categories, sources |-> raw.sources]
    IN  [tool |-> "searchWeb", raw |-> raw, accepted |-> TRUE, input |-> input,
         out |-> searchWebExecute(fc, input, adapter)]

\* tool({ inputSchema, execute }) of searchWebTool
dispatchSearchWeb(fc, raw, adapter) ==
    LET parsed == searchInputSchema(raw)
    IN  IF parsed.ok
        THEN [tool |-> "searchWeb", raw |-> raw, accepted |-> TRUE, input |-> parsed.input,
              out |-> searchWebExecute(fc, parsed.input, adapter)]
        ELSE [tool |-> "searchWeb", raw |-> raw, accepted |-> FALSE]

\* tool({ inputSchema, execute }) of scrapeWebsiteTool
dispatchScrapeWebsite(fc, raw, adapter) ==
    LET parsed == scrapeInputSchema(raw)
    IN  IF parsed.ok
        THEN [tool |-> "scrapeWebsite", raw |-> raw, accepted |-> TRUE, input |-> parsed.input,
              out |-> scrapeWebsiteExecute(fc, parsed.input, adapter)]
        ELSE [tool |-> "scrapeWebsite", raw |-> raw, accepted |-> FALSE]

(* What the adapter may do with a call *)

AdapterThrows == {[kind |-> "throw", error |-> JsError("Rate limit exceeded")],
                  [kind |-> "throw", error |-> NonError]}

ItemFull ==
    [t |-> "object", url |-> "https://a.example/post", title |-> Some("A post"),
     markdown |-> Some("Body of A"), description |-> Some("About A"),
     metadata |-> Some([title |-> Some("Meta A"), publishedTime |-> Some("2024-10-01")]),
     category |-> Some("github")]

ItemSparse ==
    [t |-> "object", url |-> "https://b.example", title |-> None,
     markdown |-> None, description |-> None, metadata |-> None, category |-> None]

ItemNull == [t |-> "null"]

\* a page whose markdown is one character over the snippet length
ItemLongMarkdown ==
    [t |-> "object", url |-> "https://c.example/long", title |-> Some("Long page"),
     markdown |-> Some(Repeat("m", SnippetMax + 1)), description |-> Some("About C"),
     metadata |-> None, category |-> None]

\* a result with no markdown and a description one character over the snippet length
ItemLongDescription ==
    [t |-> "object", url |-> "https://d.example/news", title |-> Some("News"),
     markdown |-> None, description |-> Some(Repeat("d", SnippetMax + 1)),
     metadata |-> None, category |-> None]

SearchResponses ==
    {[t |-> "null"]} \cup
    {[t |-> "object", web |-> w] :
        w \in {None, Some(<<>>), Some(<<ItemFull>>), Some(<<ItemSparse, ItemFull>>),
               Some(<<ItemFull, ItemNull>>), Some(<<ItemLongMarkdown>>),
               Some(<<ItemFull, ItemLongDescription>>)}}

SearchAdapter == AdapterThrows \cup {[kind |-> "return", value |-> r] : r \in SearchResponses}

ScrapeResponses ==
    {[t |-> "null"]} \cup
    [t : {"object"},
     markdown : {None, Some("Hello *world*")},
     content : {None, Some("Hello world")},
     metadata : {None, Some([title |-> None]), Some([title |-> Some("")]),
                 Some([title |-> Some("Example Domain")])}]

ScrapeAdapter == AdapterThrows \cup {[kind |-> "return", value |-> r] : r \in ScrapeResponses}

(* The arguments the model may give a tool *)

SearchRawInputs ==
    [query : {None, Some("ab"), Some("abc"), Some("firecrawl pricing")},
     limit : {None, Some(Num(0)), Some(Num(1)), Some(Half(2)), Some(Num(10)), Some(Num(11))},
     tbs : {None, Some(""), Some("qdr:w")},
     location : {None, Some(""), Some("Germany")},
     categories : {None, Some(<<>>), Some(<<"github">>), Some(<<"blog">>)},
     sources : {None, Some(<<>>), Some(<<"news", "web">>)}]

ScrapeRawInputs ==
    [url : {None, Some("not a url")} \cup {Some(u) : u \in UrlStrings}]

----------------------------------------------------------------------------
(* The structured output contract *)

TaskStatusEnum == {"completed", "partial", "not_found", "insufficient_data"}
ConfidenceEnum == {"high", "medium", "low"}

\* one element of findings: z.object({ name, type, launchDate, details, confidence, sources })
findingSchema(f) == f.confidence \in ConfidenceEnum

\* scoutResponseSchema: z.object of six typed fields, with no refinement across them
scoutResponseSchema(r) ==
    /\ r.taskCompleted \in BOOLEAN
    /\ r.taskStatus \in TaskStatusEnum
    /\ r.message.has
    /\ \A i \in 1..Len(r.findings) : findingSchema(r.findings[i])

\* the rules the field descriptions and the system prompt state in words
CrossFieldRules(r) ==
    /\ r.taskCompleted <=> Len(r.findings) >= 1
    /\ r.taskStatus = "completed" <=> r.taskCompleted
    /\ r.taskStatus # "completed" => r.findings = <<>>

Finding(c) ==
    [name |-> "Cafe Uno", type |-> "restaurant", launchDate |-> None, confidence |-> c,
     sources |-> <<[title |-> "Uno opens", url |-> "https://a.example/post"]>>]

\* the objects the model may emit as its final answer
ModelOutputs ==
    [taskCompleted : BOOLEAN,
     taskStatus : TaskStatusEnum \cup {"done"},
     message : {None, Some("Here is what I found.")},
     findings : {<<>>, <<Finding("high")>>, <<Finding("certain")>>},
     searchStrategies : {<<"firecrawl pricing">>},
     nextSteps : {None}]

----------------------------------------------------------------------------
(* The request *)

MaxMessages == 2
MaxCallsPerStep == 2
StepLimit == 10

UserMessage == [role |-> "user", parts |-> Some(<<[type |-> "text"]>>)]
AssistantMessage == [role |-> "assistant", parts |-> Some(<<[type |-> "text"]>>)]
NoPartsMessage == [role |-> "user", parts |-> None]
MessageValues == {UserMessage, AssistantMessage, NoPartsMessage}

RECURSIVE SeqsUpTo(_, _)
SeqsUpTo(S, k) ==
    IF k = 0 THEN {<<>>}
    ELSE LET shorter == SeqsUpTo(S, k - 1)
         IN  shorter \cup {Append(q, x) : q \in shorter, x \in S}

\* what req.json() may meet: text that is not JSON, null, or an object
RequestBodies ==
    {[json |-> FALSE], [json |-> TRUE, value |-> [t |-> "null"]],
     [json |-> TRUE, value |-> [t |-> "object", messages |-> None]]} \cup
    {[json |-> TRUE, value |-> [t |-> "object", messages |-> Some(m)]] :
        m \in SeqsUpTo(MessageValues, MaxMessages)}

JsonReply(status, error) == [kind |-> "json", status |-> status, body |-> [error |-> error]]
StreamReply == [kind |-> "stream"]
NoReply == [kind |-> "none"]

NoTrace ==
    [bodyParses |-> 0, validations |-> 0, agentInvocations |-> 0, tees |-> 0,
     logTasks |-> 0, modelCalls |-> 0]

\* steps: the steps completed; issued: the tool calls the step's model answer held;
\* inflight: the calls that have not resolved, each with the step that issued it;
\* results: the tool results in the step's record, each with the step it was attached
\* to; directives: the steps (counted from 1) whose model call got the extra system text
IdleAgent ==
    [status |-> "idle", steps |-> 0, issued |-> 0, inflight |-> {}, results |-> {},
     directives |-> {}, finishReason |-> None, messages |-> <<>>, output |-> None]

credentialIgnored(key) == FALSE

\* !process.env.OPENAI_API_KEY
credentialMissing(key) == ~key

\* the shape validateUIMessages asks of one message: a known role and a parts array
messageShapeOk(m) == m.role \in {"system", "user", "assistant"} /\ m.parts.has

validateNothing(messages) == TRUE

\* validateUIMessages({ messages }) resolves; otherwise it rejects
validateUIMessages(messages) == \A i \in 1..Len(messages) : messageShapeOk(messages[i])

ThrownReply(e) == [kind |-> "exception", error |-> e]

reqJsonLenient(raw) ==
    [ok |-> TRUE,
     value |-> IF raw.json THEN raw.value ELSE [t |-> "object", messages |-> None]]

\* await req.json(): resolves with the parsed value, or rejects
reqJson(raw) == IF raw.json THEN [ok |-> TRUE, value |-> raw.value] ELSE [ok |-> FALSE]

----------------------------------------------------------------------------
(* The response body, its two branches and the logging loop *)

MaxChunks == 3

\* chunks of the response body: whole event lines, an event line cut in two, and
\* lines the logging loop has no use for. The text is ASCII, one byte a character.
ChunkValues ==
    {"0:{\"type\":\"tool-call\"}\n",
     "0:{\"type\":\"tool-result\"}\n0:{\"type\":\"finish\"}\n",
     "0:{\"type\":\"fin",
     "ish\"}\n",
     "0:oops\n \n",
     "e:{\"type\":\"finish\"}\n0:{\"type\":\"text-delta\"}\n"}

\* no response body yet
NoTee ==
    [source |-> <<>>, pulled |-> 0, closed |-> FALSE,
     logQueue |-> <<>>, clientQueue |-> <<>>,
     logSeen |-> <<>>, clientSeen |-> <<>>,
     logDone |-> FALSE, clientDone |-> FALSE, logged |-> <<>>,
     sinkFailed |-> FALSE, clientCancelled |-> FALSE, sourceCancelled |-> FALSE]

\* decoder.decode(value, { stream: true }) of ASCII bytes: a character for each byte
decodeText(chunk) == chunk

\* chunk.split('\n'): the stretches of text between one line feed and the next
split(text) ==
    LET feeds == {i \in 1..Len(text) : SubSeq(text, i, i) = "\n"}
        feed(k) ==
            IF k = 0 THEN 0
            ELSE IF k = Cardinality(feeds) + 1 THEN Len(text) + 1
            ELSE CHOOSE p \in feeds : Cardinality({q \in feeds : q < p}) = k - 1
    IN  [k \in 1..(Cardinality(feeds) + 1) |-> SubSeq(text, feed(k - 1) + 1, feed(k) - 1)]

\* line.trim() is not empty
trimmedNonEmpty(line) ==
    \E i \in 1..Len(line) : SubSeq(line, i, i) \notin {" ", "\t", "\r", "\n"}

\* the JSON texts of the chunks above and what JSON.parse makes of them; it throws on
\* any other text the chunks can put after the '0:' prefix
JsonParse(text) ==
    IF text = "{\"type\":\"tool-call\"}" THEN [ok |-> TRUE, value |-> [type |-> "tool-call"]]
    ELSE IF text = "{\"type\":\"tool-result\"}" THEN [ok |-> TRUE, value |-> [type |-> "tool-result"]]
    ELSE IF text = "{\"type\":\"finish\"}" THEN [ok |-> TRUE, value |-> [type |-> "finish"]]
    ELSE IF text = "{\"type\":\"text-delta\"}" THEN [ok |-> TRUE, value |-> [type |-> "text-delta"]]
    ELSE [ok |-> FALSE]

logLineAnyType(line) ==
    IF StartsWith(line, "0:")
    THEN LET data == JsonParse(SubSeq(line, 3, Len(line)))
         IN  IF data.ok THEN <<data.value.type>> ELSE <<>>
    ELSE <<>>

\* the body of the for loop: what one line adds to the log
logLine(line) ==
    IF StartsWith(line, "0:")
    THEN LET data == JsonParse(SubSeq(line, 3, Len(line)))
         IN  IF data.ok /\ data.value.type \in {"tool-call", "tool-result", "finish"}
             THEN <<data.value.type>>
             ELSE <<>>
    ELSE <<>>

\* for (const line of lines), from the i-th line on, the blank lines filtered out
RECURSIVE logLinesFrom(_, _)
logLinesFrom(lines, i) ==
    IF i > Len(lines) THEN <<>>
    ELSE (IF trimmedNonEmpty(lines[i]) THEN logLine(lines[i]) ELSE <<>>)
         \o logLinesFrom(lines, i + 1)

logLines(lines) == logLinesFrom(lines, 1)

\* one turn of the while loop on a chunk: the events it logs
logChunk(chunk) == logLines(split(decodeText(chunk)))

teeEnqueueClientOnly(t, chunk) ==
    [t EXCEPT !.pulled = @ + 1,
              !.clientQueue = IF t.clientCancelled THEN @ ELSE Append(@, chunk)]

\* tee(): a chunk pulled from the body is put on the queue of both branches, a
\* cancelled branch left out
teeEnqueue(t, chunk) ==
    [t EXCEPT !.pulled = @ + 1,
              !.logQueue = Append(@, chunk),
              !.clientQueue = IF t.clientCancelled THEN @ ELSE Append(@, chunk)]

teeCanPullLockstep(t) ==
    ~t.sourceCancelled /\ t.pulled < Len(t.source) /\ t.logQueue = <<>>

\* tee(): the body is pulled whenever a branch asks, whatever the other branch holds
teeCanPull(t) == ~t.sourceCancelled /\ t.pulled < Len(t.source)

\* tee(): the body is cancelled once both branches are. The logging loop has no call
\* of cancel: its branch never is.
teeSourceCancelled(clientCancelled, logCancelled) == clientCancelled /\ logCancelled

----------------------------------------------------------------------------
(* The chat page *)

MaxSends == 3

\* what the text field can hold
TextValues == {"", " ", "hi", " hi "}

\* s.trim()
trim(s) ==
    LET kept == {i \in 1..Len(s) : SubSeq(s, i, i) \notin {" ", "\t", "\r", "\n"}}
    IN  IF kept = {} THEN ""
        ELSE SubSeq(s, CHOOSE i \in kept : \A j \in kept : i <= j,
                       CHOOSE i \in kept : \A j \in kept : i >= j)

NoEvent == [kind |-> "none"]

\* the page as it mounts: status is useChat's, sends counts the calls of sendMessage
IdleUi == [text |-> "", status |-> "ready", messages |-> 0, sends |-> 0, event |-> NoEvent]

\* const isStreaming = status === "streaming"
isStreaming(status) == status = "streaming"

\* PromptInputSubmit: disabled={disabled || loading}, with the disabled prop the page
\* passes: !text.trim() || isStreaming
submitDisabled(text, status) ==
    LET disabled == trim(text) = "" \/ isStreaming(status)
        loading == status = "submitted" \/ status = "streaming"
    IN  disabled \/ loading

shortcutSendsUnguarded(text, status) == trim(text) # ""

\* onKeyDown on Cmd/Ctrl+Enter: if (text.trim() && !isStreaming)
shortcutSends(text, status) == trim(text) # "" /\ ~isStreaming(status)

\* messages.length === 0 && <Suggestions>
suggestionsShown(u) == u.messages = 0

\* sendMessage: useChat adds the user message and the status becomes "submitted"
sendMessage(u, kind) ==
    [u EXCEPT !.status = "submitted", !.messages = @ + 1, !.sends = @ + 1,
              !.event = [kind |-> kind, during |-> u.status, sent |-> TRUE]]

\* handleSubmit(message): nothing for blank text, else sendMessage and setText("")
handleSubmit(u, text, kind) ==
    IF trim(text) = ""
    THEN [u EXCEPT !.event = [kind |-> kind, during |-> u.status, sent |-> FALSE]]
    ELSE [sendMessage(u, kind) EXCEPT !.text = ""]

----------------------------------------------------------------------------
(* One POST invocation as a value, to run several of them side by side *)

\* an invocation that has not started: its request, where it is, its own history, step
\* count and reply
FreshRequest(raw) ==
    [raw |-> raw, pc |-> "start", messages |-> <<>>, steps |-> 0, modelCalls |-> 0,
     directives |-> {}, status |-> "idle", reply |-> NoReply]

NoPair ==
    [a |-> FreshRequest([json |-> FALSE]), b |-> FreshRequest([json |-> FALSE]),
     solo |-> FreshRequest([json |-> FALSE])]

----------------------------------------------------------------------------
(* POST, one action per stretch of code between two awaits *)

Init ==
    /\ openaiKey \in BOOLEAN
    /\ firecrawl \in BOOLEAN
    /\ reqBody \in RequestBodies
    /\ pc = "start"
    /\ body = None
    /\ reply = NoReply
    /\ trace = NoTrace
    /\ agent = IdleAgent
    /\ lastCall = NoCall
    /\ tee = NoTee
    /\ ui = IdleUi
    /\ pair = NoPair

\* the credential check, up to the first return or to the call of req.json()
PostCheckCredential ==
    /\ pc = "start"
    /\ IF credentialMissing(openaiKey)
       THEN /\ reply' = JsonReply(400, "Set OPENAI_API_KEY to enable the chat.")
            /\ pc' = "returned"
       ELSE /\ reply' = reply
            /\ pc' = "json"
    /\ UNCHANGED <<pair, ui, tee, openaiKey, firecrawl, reqBody, body, trace, agent, lastCall>>

\* req.json() settles: the catch returns the 400, or body is set
PostParseBody ==
    /\ pc = "json"
    /\ trace' = [trace EXCEPT !.bodyParses = @ + 1]
    /\ LET parsed == reqJson(reqBody)
       IN  IF parsed.ok
           THEN /\ body' = Some(parsed.value)
                /\ reply' = reply
                /\ pc' = "validate"
           ELSE /\ body' = body
                /\ reply' = JsonReply(400, "Invalid JSON payload.")
                /\ pc' = "returned"
    /\ UNCHANGED <<pair, ui, tee, openaiKey, firecrawl, reqBody, agent, lastCall>>

\* body.messages ?? [] and validateUIMessages; nothing in POST catches what they throw.
\* Whether the validator takes an empty array depends on the SDK release: both happen.
PostValidate ==
    /\ pc = "validate"
    /\ IF body.v.t = "null"
       THEN /\ reply' = ThrownReply(JsError("Cannot read properties of null (reading 'messages')"))
            /\ pc' = "threw"
            /\ UNCHANGED <<trace, agent>>
       ELSE LET messages == OrElse(body.v.messages, <<>>)
            IN  /\ trace' = [trace EXCEPT !.validations = @ + 1]
                /\ \E emptyTaken \in BOOLEAN :
                     IF validateUIMessages(messages) /\ (Len(messages) > 0 \/ emptyTaken)
                     THEN /\ agent' = [agent EXCEPT !.messages = messages]
                          /\ reply' = reply
                          /\ pc' = "respond"
                     ELSE /\ agent' = agent
                          /\ reply' = ThrownReply(JsError("Type validation failed"))
                          /\ pc' = "threw"
    /\ UNCHANGED <<pair, ui, tee, openaiKey, firecrawl, reqBody, body, lastCall>>

\* chatAgent.respond, response.body.tee(), the logging task, and the return
PostRespond ==
    /\ pc = "respond"
    /\ agent' = [agent EXCEPT !.status = "running"]
    /\ trace' = [trace EXCEPT !.agentInvocations = @ + 1, !.tees = @ + 1, !.logTasks = @ + 1]
    /\ reply' = StreamReply
    /\ pc' = "returned"
    /\ UNCHANGED <<pair, ui, tee, openaiKey, firecrawl, reqBody, body, lastCall>>

----------------------------------------------------------------------------
(* The agent loop chatAgent.respond starts *)

AgentSearchInputs ==
    {[query |-> Some("ab"), limit |-> None, tbs |-> None, location |-> None,
      categories |-> None, sources |-> None],
     [query |-> Some("firecrawl pricing"), limit |-> None, tbs |-> None, location |-> None,
      categories |-> None, sources |-> None],
     [query |-> Some("firecrawl pricing"), limit |-> Some(Num(10)), tbs |-> Some("qdr:w"),
      location |-> None, categories |-> Some(<<>>), sources |-> Some(<<"news", "web">>)]}

AgentSearchAdapter ==
    {[kind |-> "throw", error |-> JsError("Rate limit exceeded")],
     [kind |-> "return", value |-> [t |-> "object", web |-> Some(<<ItemFull>>)]]}

AgentScrapeInputs == {[url |-> Some("not a url")], [url |-> Some("https://example.com")]}

AgentScrapeAdapter ==
    {[kind |-> "throw", error |-> NonError],
     [kind |-> "return",
      value |-> [t |-> "object", markdown |-> Some("Hello *world*"), content |-> None,
                 metadata |-> Some([title |-> Some("Example Domain")])]]}

stepCountIsOffByOne(stepCount, steps) == steps = stepCount + 1

stepCountIsNever(stepCount, steps) == FALSE

stepCountIsHalfway(stepCount, steps) == 2 * steps = stepCount

\* stepCountIs(stepCount): the stop condition, true of a run that has stepCount steps
stepCountIs(stepCount, steps) == steps = stepCount

prepareStepAtEight(stepNumber) ==
    IF stepNumber = 8
    THEN Some("You're approaching your step limit (step " \o ToString(stepNumber + 1)
              \o " of 10). Consider wrapping up your search and preparing your response.")
    ELSE None

\* prepareStep({ stepNumber }): the system text of the step's model call, if any.
\* stepNumber is the number of steps already completed: 0 at the first step.
prepareStep(stepNumber) ==
    IF stepNumber = 9
    THEN Some("You're approaching your step limit (step " \o ToString(stepNumber + 1)
              \o " of 10). Consider wrapping up your search and preparing your response.")
    ELSE None

\* the steps whose model call carried a system text from prepareStep, after the call
\* of the step that follows `steps` completed ones
directivesAfter(directives, steps) ==
    IF prepareStep(steps).has THEN directives \cup {steps + 1} ELSE directives

stepRaced(a) == a.inflight = {} \/ a.results # {}

\* the step is over when every tool call of it has resolved
stepJoined(a) == a.inflight = {}

\* a step's model call answers with tool calls, which start
AgentModelCall ==
    /\ agent.status = "running"
    /\ trace' = [trace EXCEPT !.modelCalls = @ + 1]
    /\ \E k \in 1..MaxCallsPerStep :
         agent' = [agent EXCEPT
                     !.status = "awaiting",
                     !.issued = k,
                     !.inflight = @ \cup {[step |-> agent.steps + 1, id |-> i] : i \in 1..k},
                     !.results = {},
                     !.directives = directivesAfter(@, agent.steps)]
    /\ UNCHANGED <<pair, ui, tee, openaiKey, firecrawl, reqBody, pc, body, reply, lastCall>>

\* a step's model call answers with the final object, parsed with scoutResponseSchema
AgentFinalAnswer ==
    /\ agent.status = "running"
    /\ trace' = [trace EXCEPT !.modelCalls = @ + 1]
    /\ \E r \in ModelOutputs :
         agent' = [agent EXCEPT
                     !.status = "finished",
                     !.steps = @ + 1,
                     !.issued = 0,
                     !.results = {},
                     !.directives = directivesAfter(@, agent.steps),
                     !.finishReason = Some("stop"),
                     !.output = Some([value |-> r, accepted |-> scoutResponseSchema(r)])]
    /\ UNCHANGED <<pair, ui, tee, openaiKey, firecrawl, reqBody, pc, body, reply, lastCall>>

\* one of the step's tool calls resolves, in any order; its result goes to the record
\* of the step that is running
AgentToolCall ==
    /\ agent.status = "awaiting"
    /\ \E c \in agent.inflight :
         agent' = [agent EXCEPT
                     !.inflight = @ \ {c},
                     !.results = @ \cup {[step |-> c.step, id |-> c.id,
                                          to |-> agent.steps + 1]}]
    /\ \/ \E raw \in AgentSearchInputs, a \in AgentSearchAdapter :
            lastCall' = dispatchSearchWeb(firecrawl, raw, a)
       \/ \E raw \in AgentScrapeInputs, a \in AgentScrapeAdapter :
            lastCall' = dispatchScrapeWebsite(firecrawl, raw, a)
    /\ UNCHANGED <<pair, ui, tee, openaiKey, firecrawl, reqBody, pc, body, reply, trace>>

\* the step's tool calls are back: the loop goes on unless stopWhen: stepCountIs(10)
\* holds, and then it ends with no final object
AgentStepEnd ==
    /\ agent.status = "awaiting"
    /\ stepJoined(agent)
    /\ agent' = [agent EXCEPT
                   !.steps = @ + 1,
                   !.status = IF stepCountIs(StepLimit, agent.steps + 1)
                              THEN "stopped" ELSE "running",
                   !.finishReason = IF stepCountIs(StepLimit, agent.steps + 1)
                                    THEN Some("tool-calls") ELSE None]
    /\ UNCHANGED <<pair, ui, tee, openaiKey, firecrawl, reqBody, pc, body, reply, trace, lastCall>>

Next ==
    \/ PostCheckCredential
    \/ PostParseBody
    \/ PostValidate
    \/ PostRespond
    \/ AgentModelCall
    \/ AgentFinalAnswer
    \/ AgentToolCall
    \/ AgentStepEnd

Spec == Init /\ [][Next]_vars

----------------------------------------------------------------------------
(* The loop against a model that asks for tools at every step *)

\* the state POST leaves behind once chatAgent.respond has started the loop
LoopInit ==
    /\ openaiKey = TRUE
    /\ firecrawl \in BOOLEAN
    /\ reqBody = [json |-> TRUE, value |-> [t |-> "object", messages |-> Some(<<UserMessage>>)]]
    /\ pc = "returned"
    /\ body = Some(reqBody.value)
    /\ reply = StreamReply
    /\ trace = [NoTrace EXCEPT !.bodyParses = 1, !.validations = 1, !.agentInvocations = 1,
                               !.tees = 1, !.logTasks = 1]
    /\ agent = [IdleAgent EXCEPT !.status = "running", !.messages = <<UserMessage>>]
    /\ lastCall = NoCall
    /\ tee = NoTee
    /\ ui = IdleUi
    /\ pair = NoPair

AlwaysToolsNext == AgentModelCall \/ AgentToolCall \/ AgentStepEnd

\* the model and the adapter answer every call they get
AlwaysToolsSpec == LoopInit /\ [][AlwaysToolsNext]_vars /\ WF_vars(AlwaysToolsNext)

\* the loop against any model
LoopNext == AgentModelCall \/ AgentFinalAnswer \/ AgentToolCall \/ AgentStepEnd

\* each model call and each tool call returns
LoopSpec == LoopInit /\ [][LoopNext]_vars /\ WF_vars(LoopNext)

----------------------------------------------------------------------------
(* The tools on their own: every input, every answer of the adapter *)

ToolInit ==
    /\ openaiKey = TRUE
    /\ firecrawl \in BOOLEAN
    /\ reqBody = [json |-> FALSE]
    /\ pc = "tools"
    /\ body = None
    /\ reply = NoReply
    /\ trace = NoTrace
    /\ agent = IdleAgent
    /\ lastCall = NoCall
    /\ tee = NoTee
    /\ ui = IdleUi
    /\ pair = NoPair

CallSearchWeb ==
    /\ lastCall = NoCall
    /\ \E raw \in SearchRawInputs, a \in SearchAdapter :
         lastCall' = dispatchSearchWeb(firecrawl, raw, a)
    /\ UNCHANGED <<pair, ui, tee, openaiKey, firecrawl, reqBody, pc, body, reply, trace, agent>>

CallScrapeWebsite ==
    /\ lastCall = NoCall
    /\ \E raw \in ScrapeRawInputs, a \in ScrapeAdapter :
         lastCall' = dispatchScrapeWebsite(firecrawl, raw, a)
    /\ UNCHANGED <<pair, ui, tee, openaiKey, firecrawl, reqBody, pc, body, reply, trace, agent>>

\* the result is handed to the loop; the tool is ready for the next call
TakeResult ==
    /\ lastCall # NoCall
    /\ lastCall' = NoCall
    /\ UNCHANGED <<pair, ui, tee, openaiKey, firecrawl, reqBody, pc, body, reply, trace, agent>>

ToolNext == CallSearchWeb \/ CallScrapeWebsite \/ TakeResult

ToolSpec == ToolInit /\ [][ToolNext]_vars

----------------------------------------------------------------------------
(* The two branches of the response body, read in every order *)

\* POST has returned: the body will yield the chunks of source, then close
TeeInit ==
    /\ openaiKey = TRUE
    /\ firecrawl \in BOOLEAN
    /\ reqBody = [json |-> TRUE, value |-> [t |-> "object", messages |-> Some(<<UserMessage>>)]]
    /\ pc = "returned"
    /\ body = Some(reqBody.value)
    /\ reply = StreamReply
    /\ trace = [NoTrace EXCEPT !.bodyParses = 1, !.validations = 1, !.agentInvocations = 1,
                               !.tees = 1, !.logTasks = 1]
    /\ agent = [IdleAgent EXCEPT !.status = "running", !.messages = <<UserMessage>>]
    /\ lastCall = NoCall
    /\ \E source \in SeqsUpTo(ChunkValues, MaxChunks) : tee = [NoTee EXCEPT !.source = source]
    /\ ui = IdleUi
    /\ pair = NoPair

\* the body yields its next chunk
TeePull ==
    /\ teeCanPull(tee)
    /\ tee' = teeEnqueue(tee, tee.source[tee.pulled + 1])
    /\ UNCHANGED <<pair, ui, openaiKey, firecrawl, reqBody, pc, body, reply, trace, agent, lastCall>>

\* the body ends: both branches close once their queues are read
TeeClose ==
    /\ tee.pulled = Len(tee.source)
    /\ ~tee.closed
    /\ ~tee.sourceCancelled
    /\ tee' = [tee EXCEPT !.closed = TRUE]
    /\ UNCHANGED <<pair, ui, openaiKey, firecrawl, reqBody, pc, body, reply, trace, agent, lastCall>>

\* one turn of the logging loop: reader.read() resolves with a chunk or with done.
\* console.log may throw on the events of the chunk: the inner catch takes it.
LogRead ==
    /\ ~tee.logDone
    /\ IF tee.logQueue # <<>>
       THEN \/ tee' = [tee EXCEPT !.logQueue = Tail(@),
                                  !.logSeen = Append(@, Head(tee.logQueue)),
                                  !.logged = @ \o logChunk(Head(tee.logQueue))]
            \/ /\ logChunk(Head(tee.logQueue)) # <<>>
               /\ tee' = [tee EXCEPT !.logQueue = Tail(@),
                                     !.logSeen = Append(@, Head(tee.logQueue)),
                                     !.sinkFailed = TRUE]
       ELSE /\ tee.closed
            /\ tee' = [tee EXCEPT !.logDone = TRUE]
    /\ UNCHANGED <<pair, ui, openaiKey, firecrawl, reqBody, pc, body, reply, trace, agent, lastCall>>

\* the transport reads the body of new Response(clientStream)
ClientRead ==
    /\ ~tee.clientDone
    /\ ~tee.clientCancelled
    /\ IF tee.clientQueue # <<>>
       THEN tee' = [tee EXCEPT !.clientQueue = Tail(@),
                               !.clientSeen = Append(@, Head(tee.clientQueue))]
       ELSE /\ tee.closed
            /\ tee' = [tee EXCEPT !.clientDone = TRUE]
    /\ UNCHANGED <<pair, ui, openaiKey, firecrawl, reqBody, pc, body, reply, trace, agent, lastCall>>

\* the client goes away: the transport cancels the body of the Response
ClientCancel ==
    /\ ~tee.clientDone
    /\ ~tee.clientCancelled
    /\ tee' = [tee EXCEPT !.clientCancelled = TRUE,
                          !.clientQueue = <<>>,
                          !.sourceCancelled = teeSourceCancelled(TRUE, FALSE)]
    /\ UNCHANGED <<pair, ui, openaiKey, firecrawl, reqBody, pc, body, reply, trace, agent, lastCall>>

TeeNext == TeePull \/ TeeClose \/ LogRead \/ ClientRead \/ ClientCancel

TeeSpec == TeeInit /\ [][TeeNext]_vars

\* a body of whole event lines
TeeFairInit ==
    /\ TeeInit
    /\ firecrawl
    /\ \A i \in 1..Len(tee.source) :
         tee.source[i] \in {"0:{\"type\":\"tool-call\"}\n",
                            "0:{\"type\":\"tool-result\"}\n0:{\"type\":\"finish\"}\n"}

\* the body goes on yielding and the logging loop goes on reading
TeeFairSpec ==
    TeeFairInit /\ [][TeeNext]_vars
        /\ WF_vars(TeePull) /\ WF_vars(TeeClose) /\ WF_vars(LogRead)

----------------------------------------------------------------------------
(* The chat page: what the user does and what useChat reports *)

PageInit ==
    /\ openaiKey = TRUE
    /\ firecrawl \in BOOLEAN
    /\ reqBody = [json |-> FALSE]
    /\ pc = "page"
    /\ body = None
    /\ reply = NoReply
    /\ trace = NoTrace
    /\ agent = IdleAgent
    /\ lastCall = NoCall
    /\ tee = NoTee
    /\ ui = IdleUi
    /\ pair = NoPair

\* onChange: setText(event.target.value)
PageType ==
    /\ \E t \in TextValues : ui' = [ui EXCEPT !.text = t]
    /\ UNCHANGED <<routeVars, pair>>

\* a click on the submit button: nothing when it is disabled, else the form's submit
\* handler reads the text field and calls the page's handleSubmit
PageClickSubmit ==
    /\ ui.sends < MaxSends
    /\ ui' = IF submitDisabled(ui.text, ui.status)
             THEN [ui EXCEPT !.event = [kind |-> "button", during |-> ui.status,
                                        sent |-> FALSE]]
             ELSE handleSubmit(ui, ui.text, "button")
    /\ UNCHANGED <<routeVars, pair>>

\* Cmd/Ctrl+Enter in the text field
PageShortcut ==
    /\ ui.sends < MaxSends
    /\ ui' = IF shortcutSends(ui.text, ui.status)
             THEN handleSubmit(ui, trim(ui.text), "shortcut")
             ELSE [ui EXCEPT !.event = [kind |-> "shortcut", during |-> ui.status,
                                        sent |-> FALSE]]
    /\ UNCHANGED <<routeVars, pair>>

\* a click on a suggestion, shown while there is no message
PageSuggestion ==
    /\ ui.sends < MaxSends
    /\ suggestionsShown(ui)
    /\ ui' = sendMessage(ui, "suggestion")
    /\ UNCHANGED <<routeVars, pair>>

\* the Clear button, shown while there are messages: setMessages([]), setText("")
PageClear ==
    /\ ui.messages > 0
    /\ ui' = [ui EXCEPT !.messages = 0, !.text = "",
                        !.event = [kind |-> "clear", during |-> ui.status, sent |-> FALSE]]
    /\ UNCHANGED <<routeVars, pair>>

\* the Stop button, shown while streaming: stop()
PageStop ==
    /\ isStreaming(ui.status)
    /\ ui' = [ui EXCEPT !.status = "ready",
                        !.event = [kind |-> "stop", during |-> ui.status, sent |-> FALSE]]
    /\ UNCHANGED <<routeVars, pair>>

\* useChat: the first chunk of the response is in, the last one is in, or the request
\* failed
ChatProgress ==
    /\ \/ ui.status = "submitted" /\ ui' = [ui EXCEPT !.status = "streaming"]
       \/ ui.status = "streaming" /\ ui' = [ui EXCEPT !.status = "ready"]
       \/ ui.status \in {"submitted", "streaming"} /\ ui' = [ui EXCEPT !.status = "error"]
    /\ UNCHANGED <<routeVars, pair>>

PageNext ==
    \/ PageType
    \/ PageClickSubmit
    \/ PageShortcut
    \/ PageSuggestion
    \/ PageClear
    \/ PageStop
    \/ ChatProgress

PageSpec == PageInit /\ [][PageNext]_vars

----------------------------------------------------------------------------
(* Two invocations of POST in one module instance *)

\* the requests of the two invocations: not JSON, one or two messages, a message that
\* fails validation
PairBodies ==
    {[json |-> FALSE],
     [json |-> TRUE, value |-> [t |-> "object", messages |-> Some(<<UserMessage>>)]],
     [json |-> TRUE,
      value |-> [t |-> "object", messages |-> Some(<<UserMessage, AssistantMessage>>)]],
     [json |-> TRUE, value |-> [t |-> "object", messages |-> Some(<<NoPartsMessage>>)]]}

runStepsShared(r, other) == r.steps + other.steps

\* the steps stopWhen and prepareStep are given: those of the run chatAgent.respond
\* started for this invocation, whatever other runs there are
runSteps(r, other) == r.steps

\* the invocation has something left to do
requestActive(r) == r.pc \notin {"returned", "threw"} \/ r.status = "running"

\* the next stretch of POST, or the next step of its loop with the model answering with
\* tool calls or with the final object, beside another invocation
requestStep(r, other, answer) ==
    IF r.pc = "start"
    THEN IF credentialMissing(openaiKey)
         THEN [r EXCEPT !.reply = JsonReply(400, "Set OPENAI_API_KEY to enable the chat."),
                        !.pc = "returned"]
         ELSE [r EXCEPT !.pc = "json"]
    ELSE IF r.pc = "json"
    THEN IF reqJson(r.raw).ok
         THEN [r EXCEPT !.pc = "validate"]
         ELSE [r EXCEPT !.reply = JsonReply(400, "Invalid JSON payload."), !.pc = "returned"]
    ELSE IF r.pc = "validate"
    THEN LET messages == OrElse(reqJson(r.raw).value.messages, <<>>)
         IN  IF validateUIMessages(messages)
             THEN [r EXCEPT !.messages = messages, !.pc = "respond"]
             ELSE [r EXCEPT !.reply = ThrownReply(JsError("Type validation failed")),
                            !.pc = "threw"]
    ELSE IF r.pc = "respond"
    THEN [r EXCEPT !.reply = StreamReply, !.status = "running", !.pc = "returned"]
    ELSE [r EXCEPT
            !.modelCalls = @ + 1,
            !.steps = @ + 1,
            !.directives = IF prepareStep(runSteps(r, other)).has
                           THEN @ \cup {r.steps + 1} ELSE @,
            !.status = IF answer = "final" THEN "finished"
                       ELSE IF stepCountIs(StepLimit, runSteps(r, other) + 1) THEN "stopped"
                       ELSE "running"]

\* solo is invocation a served alone: it gets the answers a gets
PairInit ==
    /\ openaiKey \in BOOLEAN
    /\ firecrawl \in BOOLEAN
    /\ reqBody = [json |-> FALSE]
    /\ pc = "pair"
    /\ body = None
    /\ reply = NoReply
    /\ trace = NoTrace
    /\ agent = IdleAgent
    /\ lastCall = NoCall
    /\ tee = NoTee
    /\ ui = IdleUi
    /\ \E ra \in PairBodies, rb \in PairBodies :
         pair = [a |-> FreshRequest(ra), b |-> FreshRequest(rb), solo |-> FreshRequest(ra)]

PairStepA ==
    /\ requestActive(pair.a)
    /\ \E answer \in {"tools", "final"} :
         pair' = [pair EXCEPT
                    !.a = requestStep(pair.a, pair.b, answer),
                    !.solo = requestStep(pair.solo, FreshRequest(pair.b.raw), answer)]
    /\ UNCHANGED <<routeVars, ui>>

PairStepB ==
    /\ requestActive(pair.b)
    /\ \E answer \in {"tools", "final"} :
         pair' = [pair EXCEPT !.b = requestStep(pair.b, pair.a, answer)]
    /\ UNCHANGED <<routeVars, ui>>

PairNext == PairStepA \/ PairStepB

PairSpec == PairInit /\ [][PairNext]_vars

----------------------------------------------------------------------------
(* Properties of POST *)

\* the request has done nothing past the point POST returned at
NothingStarted ==
    /\ trace.validations = 0
    /\ trace.agentInvocations = 0
    /\ trace.tees = 0
    /\ trace.logTasks = 0
    /\ trace.modelCalls = 0
    /\ agent = IdleAgent
    /\ lastCall = NoCall
    /\ tee = NoTee
    /\ ui = IdleUi
    /\ pair = NoPair

HasMalformedMessage(raw) ==
    /\ raw.json
    /\ raw.value.t = "object"
    /\ raw.value.messages.has
    /\ \E i \in 1..Len(raw.value.messages.v) : ~messageShapeOk(raw.value.messages.v[i])

\* C1: with OPENAI_API_KEY absent, whatever the request body, POST returns the 400
\* error and parses no body, validates no message, calls no model and no tool.
C1_NoCredentialRejects ==
    ~openaiKey =>
        /\ trace.bodyParses = 0
        /\ body = None
        /\ NothingStarted
        /\ \/ pc = "start" /\ reply = NoReply
           \/ /\ pc = "returned"
              /\ reply = JsonReply(400, "Set OPENAI_API_KEY to enable the chat.")

C1_Witness ==
    /\ ~openaiKey
    /\ pc = "returned"
    /\ reqBody.json
    /\ reqBody.value.t = "object"
    /\ reqBody.value.messages = Some(<<UserMessage>>)

\* C2: with the credential present, a body that is not JSON gets the 400 error and
\* nothing else is done: no validation, no agent, no tee, no logging task.
C2_MalformedJsonRejects ==
    (openaiKey /\ ~reqBody.json) =>
        /\ NothingStarted
        /\ body = None
        /\ \/ pc \in {"start", "json"} /\ reply = NoReply
           \/ /\ pc = "returned"
              /\ trace.bodyParses = 1
              /\ reply = JsonReply(400, "Invalid JSON payload.")

C2_Witness == openaiKey /\ ~reqBody.json /\ pc = "returned"

\* C3: the agent is invoked only after validation has completed and passed; a request
\* with a malformed message is rejected with no model call and no tool call.
C3_ValidationBeforeAgent ==
    /\ (trace.agentInvocations > 0 \/ trace.modelCalls > 0 \/ agent.status # "idle"
          \/ lastCall # NoCall)
         => (trace.validations = 1 /\ validateUIMessages(agent.messages)
               /\ ~HasMalformedMessage(reqBody))
    /\ HasMalformedMessage(reqBody) =>
         /\ trace.agentInvocations = 0
         /\ trace.modelCalls = 0
         /\ agent.status = "idle"
         /\ lastCall = NoCall
         /\ pc # "respond"
         /\ reply.kind # "stream"
         /\ trace.validations = 1 => pc = "threw"

C3_Witness ==
    /\ HasMalformedMessage(reqBody)
    /\ reqBody.value.messages.v[1] = UserMessage
    /\ trace.validations = 1
    /\ pc = "threw"

\* C4: every POST ends either in the stream or in a JSON body {error}: no
\* construction-time error leaves POST as an exception.
C4_EndsInStreamOrJsonError ==
    pc \in {"returned", "threw"} =>
        /\ pc = "returned"
        /\ \/ reply = StreamReply
           \/ reply.kind = "json" /\ DOMAIN reply.body = {"error"}

\* C5: an object the structured output schema accepts satisfies the cross-field rules.
C5_SchemaEnforcesCrossFieldRules ==
    (agent.output.has /\ agent.output.v.accepted) => CrossFieldRules(agent.output.v.value)

----------------------------------------------------------------------------
(* Properties of the tools *)

Executed == lastCall # NoCall /\ lastCall.accepted

AdapterCalled == Executed /\ Len(lastCall.out.calls) > 0

\* the adapter was called and its call threw
AdapterFailed == AdapterCalled /\ lastCall.out.calls[1].outcome.kind = "throw"

\* C6: execute returns a value and never throws, whatever the adapter does.
C6_ToolsNeverThrow == Executed => (~lastCall.out.threw /\ "value" \in DOMAIN lastCall.out)

C6_Witness ==
    /\ lastCall.tool = "searchWeb"
    /\ AdapterCalled
    /\ lastCall.out.calls[1].outcome \in
         {[kind |-> "throw", error |-> NonError], [kind |-> "return", value |-> [t |-> "null"]]}
    /\ ~lastCall.out.threw

\* C7 as stated: when the adapter is unavailable or its call fails, the result of
\* either tool carries an error field or a note field.
C7_FailureCarriesErrorOrNote ==
    (Executed /\ (~firecrawl \/ AdapterFailed)) =>
        /\ ~lastCall.out.threw
        /\ {"error", "note"} \cap DOMAIN lastCall.out.value # {}

\* C7 as amended: searchWeb carries note (adapter unavailable) or error (call failed);
\* scrapeWebsite carries neither and reports in title and content of {url, title, content}.
C7_FailureReported ==
    (Executed /\ (~firecrawl \/ AdapterFailed)) =>
        /\ ~lastCall.out.threw
        /\ lastCall.tool = "searchWeb" =>
             /\ ~firecrawl => "note" \in DOMAIN lastCall.out.value
             /\ AdapterFailed =>
                  /\ "error" \in DOMAIN lastCall.out.value
                  /\ lastCall.out.value.error =
                       ErrorMessage(lastCall.out.calls[1].outcome.error)
        /\ lastCall.tool = "scrapeWebsite" =>
             /\ DOMAIN lastCall.out.value = {"url", "title", "content"}
             /\ ~firecrawl => lastCall.out.value.title = "Firecrawl key missing"
             /\ AdapterFailed =>
                  /\ lastCall.out.value.title = "Firecrawl scrape failed"
                  /\ lastCall.out.value.content =
                       "Scrape error: " \o ErrorMessage(lastCall.out.calls[1].outcome.error)

C7_Witness ==
    /\ lastCall.tool = "scrapeWebsite"
    /\ AdapterFailed
    /\ lastCall.out.value.content = "Scrape error: Rate limit exceeded"

\* C8: a searchWeb input with a query under 3 characters, or a limit that is not an
\* integer in 1..10, never reaches execute or the adapter; an omitted limit is 5.
C8_SearchInputValidated ==
    lastCall.tool = "searchWeb" =>
        LET raw == lastCall.raw
            shortQuery == ~raw.query.has \/ Len(raw.query.v) < 3
            badLimit == raw.limit.has /\
                        ~(raw.limit.v.frac = 0 /\ raw.limit.v.n >= 1 /\ raw.limit.v.n <= 10)
        IN  /\ (shortQuery \/ badLimit) =>
                 (~lastCall.accepted /\ "out" \notin DOMAIN lastCall)
            /\ (lastCall.accepted /\ ~raw.limit.has) =>
                 (lastCall.input.limit = 5 /\ lastCall.out.value.limit = 5)
            /\ (lastCall.accepted /\ raw.limit.has) => lastCall.input.limit = raw.limit.v.n

C8_Witness ==
    /\ lastCall.tool = "searchWeb"
    /\ lastCall.raw.query = Some("ab")
    /\ lastCall.raw.limit = Some(Num(10))
    /\ ~lastCall.accepted

\* C9: with no adapter configured a tool call makes no adapter call and does not
\* throw: searchWeb returns results = [] with a note, scrapeWebsite the placeholder.
C9_DegradesWithoutAdapter ==
    (Executed /\ ~firecrawl) =>
        /\ lastCall.out.calls = <<>>
        /\ ~lastCall.out.threw
        /\ lastCall.tool = "searchWeb" =>
             /\ lastCall.out.value.results = <<>>
             /\ "note" \in DOMAIN lastCall.out.value
             /\ lastCall.out.value.note =
                  "FIRECRAWL_API_KEY is not configured. Unable to perform search."
             /\ lastCall.out.value.query = lastCall.raw.query.v
        /\ lastCall.tool = "scrapeWebsite" =>
             lastCall.out.value =
               [url |-> lastCall.raw.url.v,
                title |-> "Firecrawl key missing",
                content |-> "FIRECRAWL_API_KEY is not configured. Unable to scrape "
                            \o lastCall.raw.url.v \o "."]

C9_Witness ==
    /\ ~firecrawl
    /\ lastCall.tool = "searchWeb"
    /\ Executed
    /\ lastCall.raw.query = Some("firecrawl pricing")
    /\ lastCall.out.value.limit = 5

Filters == {"tbs", "location", "categories", "sources"}

SearchSucceeded ==
    /\ lastCall.tool = "searchWeb"
    /\ AdapterCalled
    /\ "count" \in DOMAIN lastCall.out.value

\* the web results the adapter answered the call with
WebReturned == OrElse(lastCall.out.calls[1].outcome.value.web, <<>>)

\* C11: every entry of the results searchWeb returns has a snippet of at most 400
\* characters, whatever the adapter answered.
C11_SnippetAtMost400 ==
    (lastCall.tool = "searchWeb" /\ Executed /\ ~lastCall.out.threw) =>
        \A i \in 1..Len(lastCall.out.value.results) :
            Len(lastCall.out.value.results[i].snippet) <= 400

\* C12: in a successful searchWeb call message is set exactly when the adapter returned
\* no web result, and then content holds the 'No results found' notice and count is 0;
\* otherwise message is unset and count is the number of results.
C12_MessageIffNoResults ==
    SearchSucceeded =>
        LET value == lastCall.out.value
        IN  /\ value.message.has <=> Len(WebReturned) = 0
            /\ value.count = Len(value.results)
            /\ value.count = Len(WebReturned)
            /\ Len(WebReturned) = 0 =>
                 /\ value.count = 0
                 /\ value.message = Some("No results returned from Firecrawl search")
                 /\ Includes(value.content, "No results found")
            /\ Len(WebReturned) > 0 => value.message = None

C12_Witness ==
    /\ SearchSucceeded
    /\ lastCall.out.calls[1].outcome.value.web = Some(<<>>)
    /\ lastCall.out.value.message.has
    /\ lastCall.out.value.count = 0

\* C13: when the adapter's search call fails the result has results = [], the failure
\* message in error ('Unknown Firecrawl error.' for a thrown non-Error) and the caller's
\* query and limit.
C13_SearchFailureShape ==
    (lastCall.tool = "searchWeb" /\ AdapterFailed) =>
        LET value == lastCall.out.value
            thrown == lastCall.out.calls[1].outcome.error
        IN  /\ ~lastCall.out.threw
            /\ value.results = <<>>
            /\ "error" \in DOMAIN value
            /\ thrown.isError => value.error = thrown.message
            /\ ~thrown.isError => value.error = "Unknown Firecrawl error."
            /\ value.query = lastCall.raw.query.v
            /\ value.limit = IF lastCall.raw.limit.has THEN lastCall.raw.limit.v.n ELSE 5

C13_Witness ==
    /\ lastCall.tool = "searchWeb"
    /\ AdapterFailed
    /\ lastCall.out.calls[1].outcome.error = JsError("Rate limit exceeded")
    /\ lastCall.out.value.error = "Rate limit exceeded"
    /\ lastCall.raw.limit = Some(Num(10))

\* the page the adapter answered a scrape with, when it answered with one
PageReturned ==
    /\ lastCall.tool = "scrapeWebsite"
    /\ AdapterCalled
    /\ lastCall.out.calls[1].outcome.kind = "return"
    /\ lastCall.out.calls[1].outcome.value.t = "object"

PageTitle ==
    LET data == lastCall.out.calls[1].outcome.value
    IN  IF data.metadata.has /\ data.metadata.v.title.has THEN data.metadata.v.title.v ELSE ""

\* C14 as stated: whenever the adapter is configured, scrapeWebsite's content begins
\* with a markdown heading, '# ' and then the page title or the URL.
C14_ContentBeginsWithHeading ==
    (lastCall.tool = "scrapeWebsite" /\ Executed /\ firecrawl) =>
        /\ ~lastCall.out.threw
        /\ \/ StartsWith(lastCall.out.value.content, "# " \o lastCall.input.url)
           \/ /\ PageReturned
              /\ PageTitle # ""
              /\ StartsWith(lastCall.out.value.content, "# " \o PageTitle)

\* C14 as amended: when the adapter is configured and its scrape call answers with a
\* page, content begins with '# ', the page title (the URL when the title is missing or
\* empty) and a blank line; when the call fails, content is 'Scrape error: <message>'.
C14_HeadingWhenScraped ==
    (lastCall.tool = "scrapeWebsite" /\ Executed /\ firecrawl) =>
        /\ ~lastCall.out.threw
        /\ PageReturned =>
             LET heading == IF PageTitle # "" THEN PageTitle ELSE lastCall.input.url
             IN  /\ StartsWith(lastCall.out.value.content, "# " \o heading \o "\n\n")
                 /\ lastCall.out.value.title = heading
        /\ ~PageReturned => StartsWith(lastCall.out.value.content, "Scrape error: ")

C14_Witness ==
    /\ PageReturned
    /\ lastCall.input.url = "https://example.com"
    /\ lastCall.out.calls[1].outcome.value.metadata = Some([title |-> Some("")])
    /\ StartsWith(lastCall.out.value.content, "# https://example.com\n\n")

----------------------------------------------------------------------------
(* Properties of the agent loop *)

\* C15: the number of the step the loop is in lies in 1..10, and the model is never
\* invoked an 11th time, whatever the model and the tools answer.
C15_StepNumberWithinLimit ==
    /\ agent.steps \in 0..10
    /\ trace.modelCalls \in 0..10
    /\ agent.status \in {"running", "awaiting"} => agent.steps + 1 \in 1..10
    /\ agent.status = "awaiting" => trace.modelCalls = agent.steps + 1
    /\ agent.status \in {"running", "finished", "stopped"} => trace.modelCalls = agent.steps

C15_Witness ==
    /\ agent.status = "awaiting"
    /\ trace.modelCalls = 10
    /\ agent.steps = 9

\* C16: against a model that asks for tools at every step the loop never finishes with
\* a final object; it ends, stopped by the step limit, after exactly 10 steps.
C16_AlwaysToolsStopsAtLimit ==
    /\ [](agent.status # "finished" /\ agent.output = None)
    /\ [](agent.status = "stopped" =>
            (agent.steps = 10 /\ trace.modelCalls = 10
             /\ agent.finishReason = Some("tool-calls")))
    /\ <>[](agent.status = "stopped")

C16_Witness ==
    /\ agent.status = "stopped"
    /\ agent.steps = 10
    /\ agent.output = None
    /\ lastCall # NoCall

\* C17 as stated: the model call of step n (counted from 1) carries the step limit
\* directive exactly when n = 9, one step before the last.
C17_DirectiveAtNinthStep ==
    \A n \in 1..trace.modelCalls : (n \in agent.directives) <=> (n = 9)

\* C17 as amended: the model call of step n (counted from 1) carries the step limit
\* directive exactly when n = 10, the last step the limit allows.
C17_DirectiveAtLastStep ==
    /\ \A n \in 1..trace.modelCalls : (n \in agent.directives) <=> (n = 10)
    /\ agent.directives \subseteq 1..trace.modelCalls

C17_Witness ==
    /\ trace.modelCalls = 10
    /\ agent.directives = {10}
    /\ prepareStep(9).has
    /\ ~prepareStep(8).has

C19_ExhaustionYieldsResult ==
    agent.status = "stopped" =>
        /\ reply = StreamReply
        /\ agent.output.has

----------------------------------------------------------------------------
(* Properties of the two branches *)

\* s is the first Len(s) elements of t
IsPrefix(s, t) == Len(s) <= Len(t) /\ SubSeq(t, 1, Len(s)) = s

\* C20: whatever the order of the two consumers' reads, each branch is handed the
\* chunks of the body once each and in the body's order, all N of them by the time it
\* is done, and the client branch gets them as the body gave them.
C20_BothBranchesSeeEveryChunk ==
    /\ IsPrefix(tee.logSeen, tee.source)
    /\ IsPrefix(tee.clientSeen, tee.source)
    /\ tee.logSeen \o tee.logQueue = SubSeq(tee.source, 1, tee.pulled)
    /\ ~tee.clientCancelled =>
         tee.clientSeen \o tee.clientQueue = SubSeq(tee.source, 1, tee.pulled)
    /\ tee.logDone => tee.logSeen = tee.source
    /\ tee.clientDone => tee.clientSeen = tee.source

\* the logging branch is done with three chunks before the client has read any
C20_Witness ==
    /\ Len(tee.source) = 3
    /\ tee.source[1] # tee.source[2]
    /\ tee.logDone
    /\ tee.logSeen = tee.source
    /\ tee.clientSeen = <<>>
    /\ tee.clientQueue = tee.source

\* C21: whatever the logging loop does (a line that does not parse, a console.log
\* that throws, reads that come late or never), the client branch is handed the
\* chunks of the body in the body's order, the body can be pulled and the client can
\* read whenever there is something to pull or to read, and no step of the logging
\* loop touches, closes or cancels the client branch.
C21_LoggingNeverReachesClient ==
    /\ [](IsPrefix(tee.clientSeen, tee.source))
    /\ []((tee.pulled < Len(tee.source) /\ ~tee.sourceCancelled) => ENABLED TeePull)
    /\ []((~tee.clientDone /\ ~tee.clientCancelled
            /\ (tee.clientQueue # <<>> \/ tee.closed)) => ENABLED ClientRead)
    /\ [][LogRead =>
            /\ tee'.clientQueue = tee.clientQueue
            /\ tee'.clientSeen = tee.clientSeen
            /\ tee'.clientDone = tee.clientDone
            /\ tee'.clientCancelled = tee.clientCancelled
            /\ tee'.sourceCancelled = tee.sourceCancelled
            /\ tee'.pulled = tee.pulled
            /\ tee'.closed = tee.closed]_vars

\* the client has all three chunks while the logging loop, after a console.log that
\* threw, has read one
C21_Witness ==
    /\ Len(tee.source) = 3
    /\ tee.clientDone
    /\ tee.clientSeen = tee.source
    /\ tee.sinkFailed
    /\ Len(tee.logSeen) = 1
    /\ Len(tee.logQueue) = 2

\* C22: once the client has cancelled its branch while the body still has chunks to
\* yield, the body is eventually cancelled, the logging loop reading on or not.
C22_CancelReleasesSource ==
    (tee.clientCancelled /\ tee.pulled < Len(tee.source)) ~> tee.sourceCancelled

\* the events of a chunk that are whole, well-formed lines of a known type
EventsIn(chunk) ==
    IF chunk = "0:{\"type\":\"tool-call\"}\n" THEN <<"tool-call">>
    ELSE IF chunk = "0:{\"type\":\"tool-result\"}\n0:{\"type\":\"finish\"}\n"
         THEN <<"tool-result", "finish">>
    ELSE <<>>

RECURSIVE EventsOf(_)
EventsOf(chunks) ==
    IF chunks = <<>> THEN <<>> ELSE EventsIn(Head(chunks)) \o EventsOf(Tail(chunks))

\* C26: a line that is not JSON after its prefix, has no '0:' prefix or has an unknown
\* event type logs nothing and does not end the loop: the loop reads whatever is
\* queued, is done only when it has read every chunk of the body, and has logged the
\* events of the well-formed lines it read, in order.
C26_BadLinesSkipped ==
    /\ ~tee.sinkFailed => tee.logged = EventsOf(tee.logSeen)
    /\ (tee.logQueue # <<>>) => ~tee.logDone
    /\ tee.logDone => Len(tee.logSeen) = Len(tee.source)

C26_Witness ==
    /\ tee.logDone
    /\ ~tee.sinkFailed
    /\ tee.source = <<"0:oops\n \n",
                      "e:{\"type\":\"finish\"}\n0:{\"type\":\"text-delta\"}\n",
                      "0:{\"type\":\"tool-call\"}\n">>
    /\ tee.logged = <<"tool-call">>

\* the bytes of the body, whatever the chunks they came in
BytesOf(chunks) == Join(chunks, "")

\* C29: when the loop is done, the events it logged are those it would log had the
\* bytes of the body come in one chunk: the log does not depend on the chunking.
C29_LogIndependentOfChunking ==
    (tee.logDone /\ ~tee.sinkFailed) => tee.logged = logChunk(BytesOf(tee.source))

\* C30: when every model call and every tool call returns, the loop ends, with a
\* final answer or stopped by the step limit, after 10 steps at most, and once it has
\* ended it calls neither the model nor a tool again.
C30_LoopTerminates ==
    /\ <>[](agent.status \in {"finished", "stopped"})
    /\ [](agent.status \in {"finished", "stopped"} => agent.steps \in 1..10)
    /\ [][agent.status \in {"finished", "stopped"} =>
            /\ trace'.modelCalls = trace.modelCalls
            /\ lastCall' = lastCall
            /\ agent' = agent]_vars

\* the loop ended on a final answer at its third step
C30_Witness ==
    /\ agent.status = "finished"
    /\ agent.steps = 3
    /\ trace.modelCalls = 3
    /\ agent.inflight = {}

----------------------------------------------------------------------------
(* Properties of the chat page *)

\* C27: while the chat status is "streaming", neither a click on the submit button nor
\* Cmd/Ctrl+Enter sends a message.
C27_NoSendWhileStreaming ==
    (ui.event.kind \in {"button", "shortcut"} /\ ui.event.during = "streaming")
        => ~ui.event.sent

\* Cmd/Ctrl+Enter with text in the field while streaming: nothing is sent
C27_Witness ==
    /\ ui.event = [kind |-> "shortcut", during |-> "streaming", sent |-> FALSE]
    /\ ui.status = "streaming"
    /\ trim(ui.text) = "hi"
    /\ ui.sends = 1

\* C28: sendMessage is never called while the chat status is "submitted" or
\* "streaming", whatever the typing, clicks and key presses before.
C28_NoSendWhileBusy ==
    (ui.event.kind # "none" /\ ui.event.sent)
        => ui.event.during \notin {"submitted", "streaming"}

----------------------------------------------------------------------------
(* Properties of two invocations *)

----------------------------------------------------------------------------
(* More properties of the tools *)

\* C25: for every valid input and every answer of the adapter, the results list
\* searchWeb returns has at most `limit` entries, and so at most 10.
C25_ResultsAtMostLimit ==
    (lastCall.tool = "searchWeb" /\ Executed /\ ~lastCall.out.threw) =>
        /\ Len(lastCall.out.value.results) <= lastCall.out.value.limit
        /\ Len(lastCall.out.value.results) <= 10

====
